---------------------------- MODULE Spec2Model ----------------------------
(***************************************************************************)
(* ST7735 display driver (src/src/lib.rs): the command protocol, the       *)
(* address window, colour streaming and the raster operations, over the    *)
(* hardware SPI transport and the bit-banged software transport.           *)
(*                                                                         *)
(* What the driver does to its environment is recorded as a trace of       *)
(* items.  An item is one of                                               *)
(*   tx    : the data/command pin is set to lvl, then the byte group       *)
(*           `bytes` is transmitted n times; the whole thing is done r     *)
(*           times in a row.  On hardware SPI one repetition is one        *)
(*           spi.write of the n copies; on the software transport every    *)
(*           byte is clocked out by its own write_byte.                    *)
(*   dc    : the data/command pin is set to lvl and nothing is sent        *)
(*   rst   : the reset pin is set to lvl                                   *)
(*   clk   : the clock pin is set to lvl                                   *)
(*   sleep : the thread blocks for n milliseconds                          *)
(* The run lengths n and r keep a bulk transfer of tens of thousands of    *)
(* identical colour words a single item.                                   *)
(***************************************************************************)
EXTENDS Integers, Sequences, FiniteSets, TLC

\* ------------------------------------------------------------------ bounds

\* Coordinates handed to the drawing operations are drawn from 0..MaxCoord.
MaxCoord == 2

\* Coordinates of the end points of the lines of SpecLine.
MaxLine == 8

\* Largest radius handed to draw_circle and draw_filled_circle in SpecCircle.
MaxRadius == 3

\* The environment may reject any of the first MaxFault effects of a call.
MaxFault == 13

\* The environment may reject an effect in any of the first MaxRep rows or
\* colour words of a bulk write.
MaxRep == 2

\* Longest argument list of a command handed to execute_command.
MaxArgs == 2

\* ------------------------------------------------------- program constants

\* command.rs: the opcodes the driver sends.
SWRESET == 1
SLPOUT == 17
INVOFF == 32
DISPON == 41
CASET == 42
RASET == 43
RAMWR == 44
MADCTL == 54
COLMOD == 58
FRMCTR1 == 177
FRMCTR2 == 178
FRMCTR3 == 179
INVCTR == 180
PWCTR1 == 192
PWCTR2 == 193
PWCTR3 == 194
PWCTR4 == 195
PWCTR5 == 196
VMCTR1 == 197

\* lib.rs: the settle delay configured for SWRESET and SLPOUT.
InitDelay == 200

\* lib.rs: the last column and the last row of the panel (fill_screen).
LastCol == 127
LastRow == 159

\* color.rs: DefaultColor::Black.
Black == 0

\* u16: the width of coordinates, lengths and colours.
U16Max == 65535

\* lib.rs: Orientation.
Portrait == 0
Landscape == 96
PortraitSwapped == 192
LandScapeSwapped == 160
Orientations == {Portrait, Landscape, PortraitSwapped, LandScapeSwapped}

\* ------------------------------------------------------------ f32 arithmetic
\* A non-negative f32 is [m, e] with value m * 2^e: m = 0, or
\* 2^23 <= m < 2^24 (a 24-bit significand).  Every operation rounds to
\* nearest, ties to even, as IEEE 754 binary32 does.

Two23 == 8388608
Two24 == 16777216

Pow2(k) == 2 ^ k

F32Zero == [m |-> 0, e |-> 0]

\* Number of bits of v (0 for 0).
RECURSIVE BitLen(_)
BitLen(v) == IF v = 0 THEN 0 ELSE 1 + BitLen(v \div 2)

\* v / 2^s rounded to nearest, ties to even.
RoundShift(v, s) ==
  IF s = 0 THEN v
  ELSE LET q == v \div Pow2(s)
           r == v % Pow2(s)
           half == Pow2(s - 1)
       IN  IF r > half \/ (r = half /\ q % 2 = 1) THEN q + 1 ELSE q

\* The f32 nearest to v * 2^e, for an integer 0 <= v < 2^31.
F32Norm(v, e) ==
  IF v = 0 THEN F32Zero
  ELSE LET len == BitLen(v)
       IN  IF len <= 24
           THEN [m |-> v * Pow2(24 - len), e |-> e - (24 - len)]
           ELSE LET s == len - 24
                    q == RoundShift(v, s)
                IN  IF q = Two24 THEN [m |-> Two23, e |-> e + s + 1]
                    ELSE [m |-> q, e |-> e + s]

\* `n as f32` for a u16 n: exact.
F32FromU16(n) == F32Norm(n, 0)

\* Long division: quotient bits of r / d until q has 24 bits.
\* <<q, r, k>>: q = floor(num * 2^k / d), r the remainder.
RECURSIVE DivBits(_, _, _, _)
DivBits(q, r, d, k) ==
  IF q >= Two23 THEN <<q, r, k>>
  ELSE LET r2 == 2 * r
       IN  IF r2 >= d THEN DivBits(2 * q + 1, r2 - d, d, k + 1)
           ELSE DivBits(2 * q, r2, d, k + 1)

\* a / b, for b > 0.
F32Div(a, b) ==
  IF a.m = 0 THEN F32Zero
  ELSE LET t == DivBits(a.m \div b.m, a.m % b.m, b.m, 0)
           q == t[1]
           r == t[2]
           e == a.e - b.e - t[3]
           up == 2 * r > b.m \/ (2 * r = b.m /\ q % 2 = 1)
       IN  IF ~up THEN [m |-> q, e |-> e]
           ELSE IF q + 1 = Two24 THEN [m |-> Two23, e |-> e + 1]
           ELSE [m |-> q + 1, e |-> e]

\* (n as f32) * a for a u16 n: the exact product n * a.m * 2^a.e, rounded
\* once.  The product is held in two limbs so that it stays below 2^31.
F32MulU16(n, a) ==
  IF n = 0 \/ a.m = 0 THEN F32Zero
  ELSE LET mh == a.m \div 4096
           ml == a.m % 4096
           b == n * ml
           hi == n * mh + b \div 4096
           lo == b % 4096
       IN  IF hi < 262144
           THEN F32Norm(hi * 4096 + lo, a.e)
           ELSE LET \* keep 30 bits of the product, the rest is sticky
                    drop == BitLen(hi) - 18
                    kept == hi * Pow2(12 - drop) + lo \div Pow2(drop)
                    rest == (lo % Pow2(drop)) # 0
                    v == IF rest /\ kept % 2 = 0 THEN kept + 1 ELSE kept
                IN  F32Norm(v, a.e + drop)

\* The integer part of a (truncation toward zero).
F32Trunc(a) ==
  IF a.m = 0 THEN 0
  ELSE IF a.e >= 0 THEN a.m * Pow2(a.e)
  ELSE IF -a.e >= 24 THEN 0
  ELSE a.m \div Pow2(-a.e)

\* a + (n as f32) for a u16 n and a < 2^17: the exact sum, rounded once.
\* 26 significant bits of the sum are kept, the rest is sticky.
F32AddU16(a, n) ==
  IF n = 0 THEN a
  ELSE IF a.m = 0 THEN F32FromU16(n)
  ELSE LET g == 26 - BitLen(F32Trunc(a) + n)
           k == -a.e
           whole == IF g >= k THEN a.m * Pow2(g - k)
                    ELSE IF k - g >= 24 THEN 0
                    ELSE a.m \div Pow2(k - g)
           rest == IF g >= k THEN FALSE
                   ELSE IF k - g >= 24 THEN TRUE
                   ELSE (a.m % Pow2(k - g)) # 0
           sum == n * Pow2(g) + whole
           v == IF rest /\ sum % 2 = 0 THEN sum + 1 ELSE sum
       IN  F32Norm(v, -g)

\* a < 1.0
F32LessThanOne(a) == a.m = 0 \/ a.e <= -24

\* `a as u16`: truncates and saturates.
F32ToU16(a) ==
  IF a.m # 0 /\ a.e > 0 THEN U16Max
  ELSE LET t == F32Trunc(a) IN IF t > U16Max THEN U16Max ELSE t

\* ------------------------------------------------------------ trace items

Item(k, lvl, bytes, n, r) ==
  [k |-> k, lvl |-> lvl, bytes |-> bytes, n |-> n, r |-> r]

\* dc pin set to lvl, then `bytes` sent n times; all of it r times over.
Tx(lvl, bytes, n, r) == Item("tx", lvl, bytes, n, r)

\* Pin::set_value(lvl) on the pin named pin ("dc", "rst", "clk", "mosi").
PinSet(pin, lvl) == Item(pin, lvl, <<>>, 0, 1)

\* thread::sleep(Duration::from_millis(ms))
Sleep(ms) == Item("sleep", 0, <<>>, ms, 1)

\* ---------------------------------------------------- results of operations
\* ev: the items emitted; ok: FALSE when the operation panicked (ev then
\* holds what was emitted before the panic); calls: the methods of the
\* handle the operation called, in order, and "slope" where draw_line
\* evaluated the slope; entered: for each of calls, the number of items
\* emitted before it was entered.

Ok(ev) == [ev |-> ev, ok |-> TRUE, calls |-> <<>>, entered |-> <<>>]

Panic == [ev |-> <<>>, ok |-> FALSE, calls |-> <<>>, entered |-> <<>>]

\* ra, then rb.
Seq2(ra, rb) ==
  [ev |-> ra.ev \o rb.ev, ok |-> rb.ok, calls |-> ra.calls \o rb.calls,
   entered |-> ra.entered \o
               [i \in 1..Len(rb.entered) |-> rb.entered[i] + Len(ra.ev)]]

\* a, then b unless a panicked.
Then(a, b) ==
  LET ra == CHOOSE r \in {a} : TRUE
  IN  IF ra.ok THEN Seq2(ra, CHOOSE r \in {b} : TRUE) ELSE ra

\* The call of method `name`, whose body gave r.
Called(name, r) == [r EXCEPT !.calls = <<name>> \o @, !.entered = <<0>> \o @]

\* ------------------------------------------------------------ u16 arithmetic
\* self.checks is the build's overflow-checks setting: a debug build panics
\* on u16 overflow, a release build wraps.

SubU16(self, a, b) ==
  IF a >= b THEN [ok |-> TRUE, v |-> a - b]
  ELSE IF self.checks THEN [ok |-> FALSE, v |-> 0]
  ELSE [ok |-> TRUE, v |-> (a - b) % (U16Max + 1)]

AddU16(self, a, b) ==
  IF a + b <= U16Max THEN [ok |-> TRUE, v |-> a + b]
  ELSE IF self.checks THEN [ok |-> FALSE, v |-> 0]
  ELSE [ok |-> TRUE, v |-> (a + b) % (U16Max + 1)]

MulU16(self, a, b) ==
  IF a * b <= U16Max THEN [ok |-> TRUE, v |-> a * b]
  ELSE IF self.checks THEN [ok |-> FALSE, v |-> 0]
  ELSE [ok |-> TRUE, v |-> (a * b) % (U16Max + 1)]

\* `hi - lo + 1`
Span(self, lo, hi) ==
  LET d == SubU16(self, hi, lo)
  IN  IF d.ok THEN AddU16(self, d.v, 1) ELSE d

\* transmute(value.to_be()): bytes[0] is the high byte, bytes[1] the low.
BeBytes(value) == <<value \div 256, value % 256>>

\* ---------------------------------------------------------------- transport

\* write_byte(value, data)
WriteByte(self, value, data) == <<Tx(IF data THEN 1 ELSE 0, <<value>>, 1, 1)>>

\* write_word sending its two bytes with the data/command line low.
WriteWordAsCommands(self, value) ==
  WriteByte(self, BeBytes(value)[1], FALSE) \o WriteByte(self, BeBytes(value)[2], FALSE)

\* write_word(value)
WriteWord(self, value) ==
  WriteByte(self, BeBytes(value)[1], TRUE) \o WriteByte(self, BeBytes(value)[2], TRUE)

\* write_color with the colour word sent in host (little-endian) byte order,
\* as without the to_be().
WriteColorLowByteFirst(self, color) ==
  IF self.spi THEN <<Tx(1, <<BeBytes(color)[2], BeBytes(color)[1]>>, 1, 1)>>
  ELSE WriteByte(self, BeBytes(color)[2], TRUE) \o WriteByte(self, BeBytes(color)[1], TRUE)

\* write_color(color)
WriteColor(self, color) ==
  IF self.spi THEN <<Tx(1, BeBytes(color), 1, 1)>>
  ELSE WriteByte(self, BeBytes(color)[1], TRUE) \o WriteByte(self, BeBytes(color)[2], TRUE)

\* write_bulk(color, repetitions, count): `0..=count` rows.  On SPI a row is
\* one spi.write of a buffer that starts with one colour word and gets one
\* more for each of `0..=repetitions`; on the software transport a row is
\* one write_color for each of `0..=repetitions`.
WriteBulk(self, color, repetitions, count) ==
  <<PinSet("dc", 0)>> \o WriteByte(self, RAMWR, FALSE) \o
  IF self.spi THEN <<Tx(1, BeBytes(color), repetitions + 2, count + 1)>>
  ELSE <<Tx(1, BeBytes(color), repetitions + 1, count + 1)>>

\* --------------------------------------------------------- command protocol

\* A Command: delay is <<>> for None and <<ms>> for Some(ms).
Command(instruction, delay, arguments) ==
  [instruction |-> instruction, delay |-> delay, arguments |-> arguments]

RECURSIVE WriteArguments(_, _)
WriteArguments(self, arguments) ==
  IF arguments = <<>> THEN <<>>
  ELSE WriteByte(self, Head(arguments), TRUE) \o WriteArguments(self, Tail(arguments))

\* execute_command sleeping whenever a delay is configured, whatever the
\* arguments.
ExecuteCommandAlwaysSleeps(self, cmd) ==
  WriteByte(self, cmd.instruction, FALSE) \o
  IF cmd.delay # <<>> THEN <<Sleep(cmd.delay[1])>>
  ELSE WriteArguments(self, cmd.arguments)

\* execute_command(cmd)
ExecuteCommand(self, cmd) ==
  WriteByte(self, cmd.instruction, FALSE) \o
  IF cmd.delay # <<>>
  THEN IF Len(cmd.arguments) > 0 THEN <<Sleep(cmd.delay[1])>> ELSE <<>>
  ELSE WriteArguments(self, cmd.arguments)

\* execute_commands(commands)
RECURSIVE ExecuteCommands(_, _)
ExecuteCommands(self, commands) ==
  IF commands = <<>> THEN <<>>
  ELSE ExecuteCommand(self, Head(commands)) \o ExecuteCommands(self, Tail(commands))

\* The command list of the driver's earlier revision (st7735.rs): reset,
\* sleep out, display on.
InitCommandsEarlierRevision ==
  << Command(SWRESET, <<InitDelay>>, <<>>),
     Command(SLPOUT, <<InitDelay>>, <<>>),
     Command(DISPON, <<>>, <<>>) >>

\* init: the command list
InitCommands ==
  << Command(SWRESET, <<InitDelay>>, <<>>),
     Command(SLPOUT, <<InitDelay>>, <<>>),
     Command(COLMOD, <<>>, <<5>>),
     Command(FRMCTR1, <<>>, <<1, 44, 45>>),
     Command(FRMCTR2, <<>>, <<1, 44, 45>>),
     Command(FRMCTR3, <<>>, <<1, 44, 45, 1, 44, 45>>),
     Command(INVCTR, <<>>, <<7>>),
     Command(PWCTR1, <<>>, <<162, 2, 132>>),
     Command(PWCTR2, <<>>, <<197>>),
     Command(PWCTR3, <<>>, <<10, 0>>),
     Command(PWCTR4, <<>>, <<138, 42>>),
     Command(PWCTR5, <<>>, <<138, 238>>),
     Command(VMCTR1, <<>>, <<14>>),
     Command(INVOFF, <<>>, <<>>),
     Command(MADCTL, <<>>, <<0>>),
     Command(DISPON, <<>>, <<>>) >>

\* hard_reset driving the line low and then high.
HardResetLowThenHigh(self) ==
  IF self.rst THEN <<PinSet("rst", 0), PinSet("rst", 1)>> ELSE <<>>

\* hard_reset
HardReset(self) ==
  IF self.rst THEN <<PinSet("rst", 1), PinSet("rst", 0)>> ELSE <<>>

\* init
InitDisplay(self) == HardReset(self) \o ExecuteCommands(self, InitCommands)

\* new_with_spi: what the constructor emits
NewWithSpi(self) == InitDisplay(self)

\* new: what the constructor emits
New(self) == <<PinSet("clk", 0)>> \o InitDisplay(self)

\* set_orientation(orientation)
SetOrientation(self, orientation) ==
  Ok(ExecuteCommand(self, Command(MADCTL, <<>>, <<orientation>>)))

\* ------------------------------------------- addressing and colour streaming

\* set_address_window sending the row bounds before the column bounds.
SetAddressWindowRowsFirst(self, x0, y0, x1, y1) ==
  WriteByte(self, RASET, FALSE) \o WriteWord(self, y0) \o WriteWord(self, y1) \o
  WriteByte(self, CASET, FALSE) \o WriteWord(self, x0) \o WriteWord(self, x1)

\* set_address_window(x0, y0, x1, y1)
SetAddressWindow(self, x0, y0, x1, y1) ==
  WriteByte(self, CASET, FALSE) \o WriteWord(self, x0) \o WriteWord(self, x1) \o
  WriteByte(self, RASET, FALSE) \o WriteWord(self, y0) \o WriteWord(self, y1)

\* ------------------------------------------------------------ raster engine

\* draw_pixel(x, y, color)
DrawPixel(self, x, y, color) ==
  Ok(SetAddressWindow(self, x, y, x, y) \o WriteByte(self, RAMWR, FALSE) \o
     WriteColor(self, color))

\* draw_filled_rect(x0, y0, x1, y1, color)
DrawFilledRect(self, x0, y0, x1, y1, color) ==
  LET width == Span(self, x0, x1)
      height == Span(self, y0, y1)
  IN  IF ~width.ok \/ ~height.ok THEN Panic
      ELSE Ok(SetAddressWindow(self, x0, y0, x1, y1) \o
              WriteBulk(self, color, width.v, height.v))

\* draw_horizontal_line(x0, x1, y, color)
DrawHorizontalLine(self, x0, x1, y, color) ==
  LET length == Span(self, x0, x1)
  IN  IF ~length.ok THEN Panic
      ELSE Ok(SetAddressWindow(self, x0, y, x1, y) \o
              WriteBulk(self, color, length.v, 1))

\* draw_vertical_line writing into the window the previous call left.
DrawVerticalLineStaleWindow(self, x, y0, y1, color) ==
  LET length == Span(self, y0, y1)
  IN  IF ~length.ok THEN Panic
      ELSE Ok(WriteBulk(self, color, length.v, 1))

\* draw_vertical_line(x, y0, y1, color)
DrawVerticalLine(self, x, y0, y1, color) ==
  LET length == Span(self, y0, y1)
  IN  IF ~length.ok THEN Panic
      ELSE Ok(SetAddressWindow(self, x, y0, x, y1) \o
              WriteBulk(self, color, length.v, 1))

\* draw_rect with the last line drawn on the left edge again.
DrawRectLeftEdgeTwice(self, x0, y0, x1, y1, color) ==
  Then(Called("draw_horizontal_line", DrawHorizontalLine(self, x0, x1, y0, color)),
  Then(Called("draw_horizontal_line", DrawHorizontalLine(self, x0, x1, y1, color)),
  Then(Called("draw_vertical_line", DrawVerticalLine(self, x0, y0, y1, color)),
       Called("draw_vertical_line", DrawVerticalLine(self, x0, y0, y1, color)))))

\* draw_rect(x0, y0, x1, y1, color)
DrawRect(self, x0, y0, x1, y1, color) ==
  Then(Called("draw_horizontal_line", DrawHorizontalLine(self, x0, x1, y0, color)),
  Then(Called("draw_horizontal_line", DrawHorizontalLine(self, x0, x1, y1, color)),
  Then(Called("draw_vertical_line", DrawVerticalLine(self, x0, y0, y1, color)),
       Called("draw_vertical_line", DrawVerticalLine(self, x1, y0, y1, color)))))

Max(a, b) == IF a >= b THEN a ELSE b
Min(a, b) == IF a <= b THEN a ELSE b

\* The slope taken as run over rise.
SlopeRunOverRise(x0, y0, x1, y1) ==
  F32Div(F32FromU16(Max(x1, x0) - Min(x0, x1)), F32FromU16(Max(y1, y0) - Min(y0, y1)))

\* draw_line: m
Slope(x0, y0, x1, y1) ==
  F32Div(F32FromU16(Max(y1, y0) - Min(y0, y1)), F32FromU16(Max(x1, x0) - Min(x0, x1)))

\* draw_line: `for x in x..=x1`, y = ((x - x0) as f32) * m + (y0 as f32)
RECURSIVE LineOverX(_, _, _, _, _, _, _)
LineOverX(self, x, x0, y0, x1, m, color) ==
  IF x > x1 THEN Ok(<<>>)
  ELSE LET y == F32AddU16(F32MulU16(x - x0, m), y0)
       IN  Then(Called("draw_pixel", DrawPixel(self, x, F32ToU16(y), color)),
                LineOverX(self, x + 1, x0, y0, x1, m, color))

\* draw_line: `for y in y..=y1`, x = ((y - y0) as f32) / m + (x0 as f32)
RECURSIVE LineOverY(_, _, _, _, _, _, _)
LineOverY(self, y, x0, y0, y1, m, color) ==
  IF y > y1 THEN Ok(<<>>)
  ELSE LET x == F32AddU16(F32Div(F32FromU16(y - y0), m), x0)
       IN  Then(Called("draw_pixel", DrawPixel(self, F32ToU16(x), y, color)),
                LineOverY(self, y + 1, x0, y0, y1, m, color))

\* draw_line(x0, y0, x1, y1, color)
DrawLine(self, x0, y0, x1, y1, color) ==
  IF x0 = x1 THEN Called("draw_vertical_line", DrawVerticalLine(self, x0, y0, y1, color))
  ELSE IF y0 = y1
  THEN Called("draw_horizontal_line", DrawHorizontalLine(self, x0, x1, y1, color))
  ELSE LET m == Slope(x0, y0, x1, y1)
       IN  Called("slope",
                  IF F32LessThanOne(m) THEN LineOverX(self, x0, x0, y0, x1, m, color)
                  ELSE LineOverY(self, y0, x0, y0, y1, m, color))

\* std::f32::consts::FRAC_1_SQRT_2 = 0.70710677 = 11863283 * 2^-24
FracSqrt2M == 11863283
FRAC_1_SQRT_2 == [m |-> FracSqrt2M, e |-> -24]

\* num::integer::sqrt on a u16: the floor of the square root.
ISqrt(v) == CHOOSE q \in 0..255 : q * q <= v /\ v < (q + 1) * (q + 1)

\* draw_pixel(x, y, color) with x and y the results of u16 arithmetic: a
\* panic in an argument comes before the call.
Plot(self, x, y, color) ==
  IF ~x.ok \/ ~y.ok THEN Panic
  ELSE Called("draw_pixel", DrawPixel(self, x.v, y.v, color))

\* x_end taken one further, as by `0..=x_end`.
CircleXEndInclusive(radius) ==
  F32ToU16(F32AddU16(F32MulU16(radius, FRAC_1_SQRT_2), 1)) + 1

\* draw_circle: x_end
CircleXEnd(radius) == F32ToU16(F32AddU16(F32MulU16(radius, FRAC_1_SQRT_2), 1))

\* draw_circle: the body of `for x in 0..x_end`
CirclePoints(self, x_pos, y_pos, radius, x, color) ==
  LET rr == MulU16(self, radius, radius)
      xx == MulU16(self, x, x)
      d == IF rr.ok /\ xx.ok THEN SubU16(self, rr.v, xx.v) ELSE [ok |-> FALSE, v |-> 0]
      y == ISqrt(d.v)
  IN  IF ~d.ok THEN Panic
      ELSE Then(Plot(self, AddU16(self, x_pos, x), AddU16(self, y_pos, y), color),
           Then(Plot(self, AddU16(self, x_pos, x), SubU16(self, y_pos, y), color),
           Then(Plot(self, SubU16(self, x_pos, x), AddU16(self, y_pos, y), color),
           Then(Plot(self, SubU16(self, x_pos, x), SubU16(self, y_pos, y), color),
           Then(Plot(self, AddU16(self, x_pos, y), AddU16(self, y_pos, x), color),
           Then(Plot(self, AddU16(self, x_pos, y), SubU16(self, y_pos, x), color),
           Then(Plot(self, SubU16(self, x_pos, y), AddU16(self, y_pos, x), color),
                Plot(self, SubU16(self, x_pos, y), SubU16(self, y_pos, x), color))))))))

RECURSIVE CircleLoop(_, _, _, _, _, _, _)
CircleLoop(self, x_pos, y_pos, radius, x, x_end, color) ==
  IF x >= x_end THEN Ok(<<>>)
  ELSE Then(CirclePoints(self, x_pos, y_pos, radius, x, color),
            CircleLoop(self, x_pos, y_pos, radius, x + 1, x_end, color))

\* draw_circle(x_pos, y_pos, radius, color)
DrawCircle(self, x_pos, y_pos, radius, color) ==
  CircleLoop(self, x_pos, y_pos, radius, 0, CircleXEnd(radius), color)

\* draw_vertical_line(x, y0, y1, color) with x, y0 and y1 the results of u16
\* arithmetic.
VLine(self, x, y0, y1, color) ==
  IF ~x.ok \/ ~y0.ok \/ ~y1.ok THEN Panic
  ELSE Called("draw_vertical_line", DrawVerticalLine(self, x.v, y0.v, y1.v, color))

\* draw_filled_circle: the body of `for x in 0..radius`
FilledCircleColumns(self, x_pos, y_pos, r2, x, color) ==
  LET xx == MulU16(self, x, x)
      d == IF xx.ok THEN SubU16(self, r2, xx.v) ELSE xx
      y == ISqrt(d.v)
      y0 == SubU16(self, y_pos, y)
      y1 == AddU16(self, y_pos, y)
  IN  IF ~d.ok \/ ~y0.ok \/ ~y1.ok THEN Panic
      ELSE Then(VLine(self, AddU16(self, x_pos, x), y0, y1, color),
                VLine(self, SubU16(self, x_pos, x), y0, y1, color))

RECURSIVE FilledCircleLoop(_, _, _, _, _, _, _)
FilledCircleLoop(self, x_pos, y_pos, r2, x, radius, color) ==
  IF x >= radius THEN Ok(<<>>)
  ELSE Then(FilledCircleColumns(self, x_pos, y_pos, r2, x, color),
            FilledCircleLoop(self, x_pos, y_pos, r2, x + 1, radius, color))

\* draw_filled_circle(x_pos, y_pos, radius, color)
DrawFilledCircle(self, x_pos, y_pos, radius, color) ==
  LET r2 == MulU16(self, radius, radius)
  IN  IF ~r2.ok THEN Panic
      ELSE FilledCircleLoop(self, x_pos, y_pos, r2.v, 0, radius, color)

\* draw_character: `character_data[col] & (mask << row)` is not 0
BitSet(character_data, col, row) == (character_data[col + 1] \div Pow2(row)) % 2 = 1

\* draw_character: `for row in 0..7 { for col in 0..5 {..} }`, the cells
\* k = 5 * row + col with lo <= k < hi, in order (the range is halved to keep
\* the evaluation shallow; the order of the cells is the loops').
RECURSIVE CharacterLoop(_, _, _, _, _, _, _)
CharacterLoop(self, character_data, x, y, color, lo, hi) ==
  IF lo >= hi THEN Ok(<<>>)
  ELSE IF hi = lo + 1
  THEN LET row == lo \div 5
           col == lo % 5
       IN  IF BitSet(character_data, col, row)
           THEN Plot(self, SubU16(self, x, col), SubU16(self, y, row), color)
           ELSE Ok(<<>>)
  ELSE LET mid == (lo + hi) \div 2
       IN  Then(CharacterLoop(self, character_data, x, y, color, lo, mid),
                CharacterLoop(self, character_data, x, y, color, mid, hi))

\* draw_character(c, x, y, color, font), character_data being
\* font.get_char(c): five column bytes.
DrawCharacter(self, character_data, x, y, color) ==
  CharacterLoop(self, character_data, x, y, color, 0, 35)

\* fill_screen(color)
FillScreen(self, color) ==
  Called("draw_filled_rect", DrawFilledRect(self, 0, 0, LastCol, LastRow, color))

\* clear_screen()
ClearScreen(self) ==
  Called("draw_filled_rect", DrawFilledRect(self, 0, 0, LastCol, LastRow, Black))


\* ------------------------------------------------------------ state machine

VARIABLES
  display,  \* the handle: spi (hardware SPI present; else the software pins),
            \* rst (reset pin present), and checks, the build's overflow checks
  args,     \* the values the application passes: v, four u16 that the
            \* operations take their coordinates (and radius) from, and color;
            \* or cmd, a command
  call,     \* the last call: the constructor, or an operation and its arguments
  trace,    \* what that call emitted
  ok,       \* FALSE once a call has panicked (the thread is gone)
  inner     \* the methods that call invoked, in order

vars == <<display, args, call, trace, ok, inner>>

\* color.rs: DefaultColor::Magenta and DefaultColor::Lime.
Magenta == 63519
Lime == 2016
White == 65535
Gray == 33808

Coords == 0..MaxCoord
Colors == {Magenta, Lime}

\* Column bytes of glyphs: a bar on row 0, a dot on row 6 with bit 7 set in
\* another column, and every bit set.
Glyphs == {<<1, 1, 1, 1, 1>>, <<64, 0, 128, 0, 0>>, <<255, 255, 255, 255, 255>>}

\* new_with_spi: the handle it builds, in a build with overflow checks
\* `checks`.  A field is TRUE for Some(..) and FALSE for None.
NewWithSpiHandle(checks) ==
  [rst |-> FALSE, clk |-> FALSE, dc |-> TRUE, mosi |-> FALSE, spi |-> TRUE,
   checks |-> checks]

\* new with the hardware channel left in the handle.
NewHandleKeepingSpi(rst, checks) ==
  [rst |-> rst, clk |-> TRUE, dc |-> TRUE, mosi |-> TRUE, spi |-> TRUE,
   checks |-> checks]

\* new(rst, clk, dc, mosi): the handle it builds, rst being whether a reset
\* pin is given.
NewHandle(rst, checks) ==
  [rst |-> rst, clk |-> TRUE, dc |-> TRUE, mosi |-> TRUE, spi |-> FALSE,
   checks |-> checks]

Handles ==
  {NewWithSpiHandle(c) : c \in BOOLEAN} \cup
  {NewHandle(r, c) : r \in BOOLEAN, c \in BOOLEAN}

Call(name, argv) == [name |-> name, argv |-> argv]

Constructors == {"new", "new_with_spi"}

\* The result of call c on handle self.
Run(self, c) ==
  CASE c.name = "new" -> Ok(New(self))
    [] c.name = "new_with_spi" -> Ok(NewWithSpi(self))
    [] c.name = "hard_reset" -> Ok(HardReset(self))
    [] c.name = "write_byte" -> Ok(WriteByte(self, c.argv[1], c.argv[2]))
    [] c.name = "write_bulk" -> Ok(WriteBulk(self, c.argv[1], c.argv[2], c.argv[3]))
    [] c.name = "set_address_window" ->
         Ok(SetAddressWindow(self, c.argv[1], c.argv[2], c.argv[3], c.argv[4]))
    [] c.name = "execute_command" -> Ok(ExecuteCommand(self, c.argv[1]))
    [] c.name = "set_orientation" -> SetOrientation(self, c.argv[1])
    [] c.name = "draw_pixel" -> DrawPixel(self, c.argv[1], c.argv[2], c.argv[3])
    [] c.name = "draw_filled_rect" ->
         DrawFilledRect(self, c.argv[1], c.argv[2], c.argv[3], c.argv[4], c.argv[5])
    [] c.name = "draw_rect" ->
         DrawRect(self, c.argv[1], c.argv[2], c.argv[3], c.argv[4], c.argv[5])
    [] c.name = "draw_horizontal_line" ->
         DrawHorizontalLine(self, c.argv[1], c.argv[2], c.argv[3], c.argv[4])
    [] c.name = "draw_vertical_line" ->
         DrawVerticalLine(self, c.argv[1], c.argv[2], c.argv[3], c.argv[4])
    [] c.name = "draw_line" ->
         DrawLine(self, c.argv[1], c.argv[2], c.argv[3], c.argv[4], c.argv[5])
    [] c.name = "draw_circle" ->
         DrawCircle(self, c.argv[1], c.argv[2], c.argv[3], c.argv[4])
    [] c.name = "draw_filled_circle" ->
         DrawFilledCircle(self, c.argv[1], c.argv[2], c.argv[3], c.argv[4])
    [] c.name = "draw_character" ->
         DrawCharacter(self, c.argv[1], c.argv[2], c.argv[3], c.argv[4])
    [] c.name = "fill_screen" -> FillScreen(self, c.argv[1])
    [] c.name = "clear_screen" -> ClearScreen(self)

\* The constructor that builds handle self.
Construct(self) ==
  IF self.spi THEN Call("new_with_spi", <<>>) ELSE Call("new", <<self.rst>>)

\* The state a constructor returns in, the application holding arguments a.
Built(a) ==
  /\ display \in Handles
  /\ args = a
  /\ call = Construct(display)
  /\ trace = Run(display, call).ev
  /\ ok = TRUE
  /\ inner = <<>>

\* The application calls c; the call runs to completion or panics.
Do(c) ==
  /\ call' = c
  /\ \E r \in {Run(display, c)} : trace' = r.ev /\ ok' = r.ok /\ inner' = r.calls
  /\ UNCHANGED <<display, args>>

HardResetOp ==
  /\ ok
  /\ Do(Call("hard_reset", <<>>))

SetOrientationOp ==
  /\ ok
  /\ \E o \in Orientations : Do(Call("set_orientation", <<o>>))

DrawPixelOp ==
  /\ ok
  /\ Do(Call("draw_pixel", <<args.v[1], args.v[2], args.color>>))

DrawFilledRectOp ==
  /\ ok
  /\ Do(Call("draw_filled_rect", args.v \o <<args.color>>))

DrawRectOp ==
  /\ ok
  /\ Do(Call("draw_rect", args.v \o <<args.color>>))

DrawHorizontalLineOp ==
  /\ ok
  /\ Do(Call("draw_horizontal_line", <<args.v[1], args.v[3], args.v[2], args.color>>))

DrawVerticalLineOp ==
  /\ ok
  /\ Do(Call("draw_vertical_line", <<args.v[1], args.v[2], args.v[4], args.color>>))

DrawLineOp ==
  /\ ok
  /\ Do(Call("draw_line", args.v \o <<args.color>>))

DrawCircleOp ==
  /\ ok
  /\ Do(Call("draw_circle", <<args.v[1], args.v[2], args.v[3], args.color>>))

DrawFilledCircleOp ==
  /\ ok
  /\ Do(Call("draw_filled_circle", <<args.v[1], args.v[2], args.v[3], args.color>>))

DrawCharacterOp ==
  /\ ok
  /\ \E g \in Glyphs : Do(Call("draw_character", <<g, args.v[1], args.v[2], args.color>>))

FillScreenOp ==
  /\ ok
  /\ Do(Call("fill_screen", <<args.color>>))

ClearScreenOp ==
  /\ ok
  /\ Do(Call("clear_screen", <<>>))

ExecuteCommandOp ==
  /\ ok
  /\ Do(Call("execute_command", <<args.cmd>>))

\* Every operation, on coordinates in 0..MaxCoord.
Init ==
  \E v \in [1..4 -> Coords], c \in Colors : Built([v |-> v, color |-> c])

Next ==
  \/ HardResetOp
  \/ SetOrientationOp
  \/ DrawPixelOp
  \/ DrawFilledRectOp
  \/ DrawRectOp
  \/ DrawHorizontalLineOp
  \/ DrawVerticalLineOp
  \/ DrawLineOp
  \/ DrawCircleOp
  \/ DrawFilledCircleOp
  \/ DrawCharacterOp
  \/ FillScreenOp
  \/ ClearScreenOp

Spec == Init /\ [][Next]_vars

\* execute_command on every command of a bounded set.
SeqsUpTo(S, n) == UNION {[1..k -> S] : k \in 0..n}

Commands ==
  {Command(i, d, a) : i \in {SWRESET, MADCTL, RAMWR},
                      d \in {<<>>, <<InitDelay>>, <<100>>},
                      a \in SeqsUpTo({0, 5, 255}, MaxArgs)}

InitExec == \E c \in Commands : Built([cmd |-> c])

NextExec == ExecuteCommandOp

SpecExec == InitExec /\ [][NextExec]_vars

\* draw_pixel over the whole width of a coordinate and of a colour.
WideCoords == {0, 1, 127, 255, 256, 258, U16Max}

InitPixel ==
  \E x \in WideCoords, y \in WideCoords, c \in {Black, Magenta, Lime, Gray, White} :
    Built([v |-> <<x, y, x, y>>, color |-> c])

NextPixel == DrawPixelOp

SpecPixel == InitPixel /\ [][NextPixel]_vars

\* draw_line between every two points with coordinates in 0..MaxLine.
InitLine == \E v \in [1..4 -> 0..MaxLine] : Built([v |-> v, color |-> Lime])

NextLine == DrawLineOp

SpecLine == InitLine /\ [][NextLine]_vars

\* draw_circle and draw_filled_circle with a centre near either end of the
\* u16 range and a radius in 0..MaxRadius.
CircleCoords == (0..MaxRadius) \cup {U16Max - 1, U16Max}

InitCircle ==
  \E xc \in CircleCoords, yc \in CircleCoords, r \in 0..MaxRadius :
    Built([v |-> <<xc, yc, r, 0>>, color |-> Magenta])

NextCircle == DrawCircleOp \/ DrawFilledCircleOp

SpecCircle == InitCircle /\ [][NextCircle]_vars

\* draw_rect on corners near either end of the u16 range.
RectCoords == (0..MaxCoord) \cup {U16Max - 1, U16Max}

InitRect == \E v \in [1..4 -> RectCoords] : Built([v |-> v, color |-> Magenta])

NextRect == DrawRectOp

SpecRect == InitRect /\ [][NextRect]_vars

\* The transport helpers called on their own: write_byte on the low byte of
\* the first argument, write_bulk on the first two as repetitions and count,
\* set_address_window on all four.
WriteByteOp ==
  /\ ok
  /\ \E data \in BOOLEAN : Do(Call("write_byte", <<args.v[1] % 256, data>>))

WriteBulkOp ==
  /\ ok
  /\ Do(Call("write_bulk", <<args.color, args.v[1], args.v[2]>>))

SetAddressWindowOp ==
  /\ ok
  /\ Do(Call("set_address_window", args.v))

\* Values with either byte zero, a single bit, mixed bits and every bit set.
TransportVals == {0, 1, 2, 128, 165, 255, 256, 4660}

InitTransport ==
  \E v \in [1..4 -> TransportVals] : Built([v |-> v, color |-> Magenta])

NextTransport == WriteByteOp \/ WriteBulkOp \/ SetAddressWindowOp

SpecTransport == InitTransport /\ [][NextTransport]_vars

\* Every operation on both transports, on coordinates 0 and 1: what the
\* lines do under a byte does not depend on the coordinates.
InitLevels ==
  \E v \in [1..4 -> {0, 1}], c \in Colors : Built([v |-> v, color |-> c])

NextLevels ==
  \/ HardResetOp
  \/ SetOrientationOp
  \/ DrawPixelOp
  \/ DrawFilledRectOp
  \/ DrawRectOp
  \/ DrawHorizontalLineOp
  \/ DrawVerticalLineOp
  \/ DrawLineOp
  \/ DrawCircleOp
  \/ DrawFilledCircleOp
  \/ DrawCharacterOp
  \/ FillScreenOp
  \/ ClearScreenOp

SpecLevels == InitLevels /\ [][NextLevels]_vars

\* ------------------------------------------- the lines under a transmission

\* One spi.write of a buffer holding `bytes` n times.
SpiWrite(bytes, n) == Item("spi", 0, bytes, n, 1)

\* Pin::set_value(value): the line goes low for 0 and high for any other
\* value.
Level(value) == IF value = 0 THEN 0 ELSE 1

\* value & (1 << bit): the bits taken from the low end.
BitMaskedFromLow(value, bit) == ((value \div Pow2(bit)) % 2) * Pow2(bit)

\* value & (mask >> bit) with mask = 0x80
BitMasked(value, bit) == ((value \div Pow2(7 - bit)) % 2) * Pow2(7 - bit)

\* pulse_clock setting the clock low and then high.
PulseClockLowThenHigh == <<PinSet("clk", 0), PinSet("clk", 1)>>

\* pulse_clock
PulseClock == <<PinSet("clk", 1), PinSet("clk", 0)>>

\* write_byte, the loop `for bit in 0..8` from `bit` on.
RECURSIVE ShiftOut(_, _)
ShiftOut(value, bit) ==
  IF bit >= 8 THEN <<>>
  ELSE <<PinSet("mosi", BitMasked(value, bit))>> \o PulseClock \o
       ShiftOut(value, bit + 1)

\* write_byte(value, data), line by line.
WriteByteLines(self, value, data) ==
  <<PinSet("dc", IF data THEN 1 ELSE 0)>> \o
  IF self.spi THEN <<SpiWrite(<<value>>, 1)>> ELSE ShiftOut(value, 0)

RECURSIVE WriteBytesLines(_, _, _)
WriteBytesLines(self, bytes, data) ==
  IF bytes = <<>> THEN <<>>
  ELSE WriteByteLines(self, Head(bytes), data) \o
       WriteBytesLines(self, Tail(bytes), data)

\* What the lines do under trace item `item`, once over.  A transmission on
\* the SPI channel is, for each of its r rows, the dc level and one
\* spi.write; on the software pins it is one write_byte for every byte sent.
LineEvents(self, item) ==
  IF item.k # "tx" THEN <<item>>
  ELSE IF self.spi THEN <<PinSet("dc", item.lvl), SpiWrite(item.bytes, item.n)>>
  ELSE WriteBytesLines(self, item.bytes, item.lvl = 1)

\* The events of `item` and how many times over they happen.
Lines(self, item) ==
  [ev |-> LineEvents(self, item),
   times |-> IF item.k # "tx" THEN 1
             ELSE IF self.spi THEN item.r ELSE item.n * item.r]

\* ------------------------------------------------------------ pins in use

\* The fields of the handle that effect `item` unwraps: write_byte and
\* write_bulk unwrap dc and then use the SPI channel when there is one and
\* mosi and clk otherwise; hard_reset unwraps rst; new sets clk.
PinsUsed(self, item) ==
  IF item.k = "tx" THEN {"dc"} \cup (IF self.spi THEN {"spi"} ELSE {"mosi", "clk"})
  ELSE IF item.k \in {"dc", "rst", "clk", "mosi"} THEN {item.k}
  ELSE {}

\* The fields of the handle that are Some(..).
Owned(self) == {p \in {"rst", "clk", "dc", "mosi", "spi"} : self[p]}

\* ------------------------------------------------------ rejected effects

\* What the driver does with the Err of the environment call behind
\* effect `item`: every set_value and every spi.write is followed by
\* .expect(..), which panics.
ExpectErrDiscardedWrite(item) == IF item.k = "tx" THEN "discard" ELSE "panic"

ExpectErr(item) == "panic"

\* An effect with an environment call that can fail (a sleep has none).
CanFail(item) == item.k # "sleep"

\* The repetitions of item that were completed before repetition number
\* rep of it: rows on the SPI channel, colour words on the software pins.
Completed(self, item, rep) ==
  IF rep = 1 THEN <<>>
  ELSE IF self.spi THEN <<Tx(item.lvl, item.bytes, item.n, rep - 1)>>
  ELSE <<Tx(item.lvl, item.bytes, rep - 1, 1)>>

\* The call on handle self that gives r when nothing fails, with the
\* environment rejecting, under item number f.at of it and in repetition
\* f.rep of that item, environment call number f.step: a set_value or an
\* spi.write.  The panic ends the call there: what was emitted are the
\* items before, the repetitions completed and the environment calls of
\* this repetition that came before the rejected one; the methods entered
\* by then stay entered.
Faulted(self, r, f) ==
  LET item == r.ev[f.at]
      n == Cardinality({i \in 1..Len(r.calls) : r.entered[i] < f.at})
  IN  IF ExpectErr(item) = "panic"
      THEN [ev |-> SubSeq(r.ev, 1, f.at - 1) \o Completed(self, item, f.rep) \o
                   SubSeq(LineEvents(self, item), 1, f.step - 1),
            ok |-> FALSE,
            calls |-> SubSeq(r.calls, 1, n),
            entered |-> SubSeq(r.entered, 1, n)]
      ELSE r

\* The calls an application holding arguments a makes on handle self.
AppCalls(self, a) ==
  { Construct(self),
    Call("hard_reset", <<>>),
    Call("draw_pixel", <<a.v[1], a.v[2], a.color>>),
    Call("draw_filled_rect", a.v \o <<a.color>>),
    Call("draw_rect", a.v \o <<a.color>>),
    Call("draw_horizontal_line", <<a.v[1], a.v[3], a.v[2], a.color>>),
    Call("draw_vertical_line", <<a.v[1], a.v[2], a.v[4], a.color>>),
    Call("draw_line", a.v \o <<a.color>>),
    Call("draw_circle", <<a.v[1], a.v[2], a.v[3], a.color>>),
    Call("draw_filled_circle", <<a.v[1], a.v[2], a.v[3], a.color>>),
    Call("fill_screen", <<a.color>>),
    Call("clear_screen", <<>>) } \cup
  {Call("set_orientation", <<o>>) : o \in Orientations} \cup
  {Call("draw_character", <<g, a.v[1], a.v[2], a.color>>) : g \in Glyphs}

\* The environment calls of item number at of r that may be rejected.
Faults(self, r, at) ==
  IF at > Len(r.ev) \/ ~CanFail(r.ev[at]) THEN {}
  ELSE [at : {at},
        rep : 1..Min(MaxRep, Lines(self, r.ev[at]).times),
        step : 1..Len(LineEvents(self, r.ev[at]))]

\* The application calls c and the environment rejects an environment call
\* of it.
RejectedOp ==
  /\ ok
  /\ \E c \in AppCalls(display, args) :
       \E full \in {Run(display, c)} :
         \E at \in 1..MaxFault :
           \E f \in Faults(display, full, at) :
             /\ call' = [name |-> c.name, argv |-> c.argv, fault |-> f]
             /\ \E r \in {Faulted(display, full, f)} :
                  trace' = r.ev /\ ok' = r.ok /\ inner' = r.calls
             /\ UNCHANGED <<display, args>>

InitFault == \E v \in [1..4 -> 0..1] : Built([v |-> v, color |-> Magenta])

NextFault == RejectedOp

SpecFault == InitFault /\ [][NextFault]_vars

\* ------------------------------------------------------- reading a trace

IsTx(i) == i.k = "tx"

\* One tx item per byte for a group that is sent once.
RECURSIVE SplitBytes(_, _)
SplitBytes(lvl, bytes) ==
  IF bytes = <<>> THEN <<>>
  ELSE <<Tx(lvl, <<Head(bytes)>>, 1, 1)>> \o SplitBytes(lvl, Tail(bytes))

\* Halving keeps the recursion shallow on a long trace.
RECURSIVE PerByte(_)
PerByte(t) ==
  IF t = <<>> THEN <<>>
  ELSE IF Len(t) = 1
  THEN LET i == t[1]
       IN  IF i.n = 1 /\ i.r = 1 THEN SplitBytes(i.lvl, i.bytes) ELSE t
  ELSE LET half == Len(t) \div 2
       IN  PerByte(SubSeq(t, 1, half)) \o PerByte(SubSeq(t, half + 1, Len(t)))

\* The stream the controller receives: the transmissions of trace t in
\* order, byte by byte, a bulk transfer kept as one item.
Logical(t) == PerByte(SelectSeq(t, IsTx))

\* Item i is the single command byte opcode.
IsCmd(i, opcode) == i = Tx(0, <<opcode>>, 1, 1)

\* Item i is a single data byte.
IsData(i) == i.lvl = 1 /\ Len(i.bytes) = 1 /\ i.n = 1 /\ i.r = 1

\* The window specification CASET x0 x1 RASET y0 y1, as ten single bytes.
WindowBytes(x0, y0, x1, y1) ==
  << Tx(0, <<CASET>>, 1, 1),
     Tx(1, <<x0 \div 256>>, 1, 1), Tx(1, <<x0 % 256>>, 1, 1),
     Tx(1, <<x1 \div 256>>, 1, 1), Tx(1, <<x1 % 256>>, 1, 1),
     Tx(0, <<RASET>>, 1, 1),
     Tx(1, <<y0 \div 256>>, 1, 1), Tx(1, <<y0 % 256>>, 1, 1),
     Tx(1, <<y1 \div 256>>, 1, 1), Tx(1, <<y1 % 256>>, 1, 1) >>

\* The number of colour words equal to color that the data items d hold,
\* -1 when d holds anything else.
RECURSIVE ColorWords(_, _)
ColorWords(d, color) ==
  IF d = <<>> THEN 0
  ELSE IF Head(d).lvl = 1 /\ Head(d).bytes = <<color \div 256, color % 256>>
  THEN LET rest == ColorWords(Tail(d), color)
       IN  IF rest < 0 THEN -1 ELSE Head(d).n * Head(d).r + rest
  ELSE IF Len(d) >= 2 /\ d[1] = Tx(1, <<color \div 256>>, 1, 1)
                      /\ d[2] = Tx(1, <<color % 256>>, 1, 1)
  THEN LET rest == ColorWords(Tail(Tail(d)), color)
       IN  IF rest < 0 THEN -1 ELSE 1 + rest
  ELSE -1

\* Stream s is: the window (x0,y0,x1,y1), RAMWR, then exactly `words`
\* colour words equal to color.
IsFill(s, x0, y0, x1, y1, color, words) ==
  /\ Len(s) >= 11
  /\ SubSeq(s, 1, 10) = WindowBytes(x0, y0, x1, y1)
  /\ IsCmd(s[11], RAMWR)
  /\ ColorWords(SubSeq(s, 12, Len(s)), color) = words

Arg(k) == call.argv[k]

\* ---------------------------------------------------------------- claims

\* C1: for x0 <= x1 and y0 <= y1, draw_filled_rect sets the window
\* (x0,y0,x1,y1) and then emits exactly (x1-x0+1)*(y1-y0+1) colour writes,
\* each the requested colour; fill_screen and clear_screen emit exactly
\* 128*160 colour writes over the window (0,0,127,159).
C1_FilledRectExactCount ==
  /\ (call.name = "draw_filled_rect" /\ Arg(1) <= Arg(3) /\ Arg(2) <= Arg(4)) =>
       /\ ok
       /\ IsFill(Logical(trace), Arg(1), Arg(2), Arg(3), Arg(4), Arg(5),
                 (Arg(3) - Arg(1) + 1) * (Arg(4) - Arg(2) + 1))
  /\ call.name = "fill_screen" =>
       /\ ok
       /\ IsFill(Logical(trace), 0, 0, 127, 159, Arg(1), 128 * 160)
  /\ call.name = "clear_screen" =>
       /\ ok
       /\ IsFill(Logical(trace), 0, 0, 127, 159, 0, 128 * 160)

\* C2: for start <= end, draw_horizontal_line and draw_vertical_line set a
\* one-pixel-thick window over start..end and stream exactly
\* end - start + 1 colours; a horizontal draw_line does the same, so
\* draw_line(0,0,4,0,C) gives 5 pixels.
C2_LineExactLength ==
  /\ (call.name = "draw_horizontal_line" /\ Arg(1) <= Arg(2)) =>
       /\ ok
       /\ IsFill(Logical(trace), Arg(1), Arg(3), Arg(2), Arg(3), Arg(4),
                 Arg(2) - Arg(1) + 1)
  /\ (call.name = "draw_vertical_line" /\ Arg(2) <= Arg(3)) =>
       /\ ok
       /\ IsFill(Logical(trace), Arg(1), Arg(2), Arg(1), Arg(3), Arg(4),
                 Arg(3) - Arg(2) + 1)
  /\ (call.name = "draw_line" /\ Arg(2) = Arg(4) /\ Arg(1) < Arg(3)) =>
       /\ ok
       /\ IsFill(Logical(trace), Arg(1), Arg(2), Arg(3), Arg(2), Arg(5),
                 Arg(3) - Arg(1) + 1)

\* C3: every RAMWR opcode in the stream of an operation is preceded, in the
\* same operation and with no other opcode in between, by a complete window
\* specification: CASET and four data bytes, then RASET and four data bytes.
C3_WindowBeforeEveryRamwr ==
  LET s == Logical(trace)
  IN  \A i \in 1..Len(s) :
        IsCmd(s[i], RAMWR) =>
          /\ i > 10
          /\ IsCmd(s[i - 10], CASET)
          /\ \A j \in (i - 9)..(i - 6) : IsData(s[j])
          /\ IsCmd(s[i - 5], RASET)
          /\ \A j \in (i - 4)..(i - 1) : IsData(s[j])

\* The number of RAMWR opcodes in stream s.
RamwrCount(s) == Cardinality({i \in 1..Len(s) : IsCmd(s[i], RAMWR)})

\* C3 witness: a draw_rect has completed, with four memory writes in its
\* stream.
C3_Witness ==
  call.name = "draw_rect" /\ ok /\ RamwrCount(Logical(trace)) = 4

\* The init sequence of the specification: each entry an opcode and its
\* argument bytes.
ExpectedInit ==
  << <<SWRESET>>, <<SLPOUT>>, <<COLMOD, 5>>, <<FRMCTR1, 1, 44, 45>>,
     <<FRMCTR2, 1, 44, 45>>, <<FRMCTR3, 1, 44, 45, 1, 44, 45>>, <<INVCTR, 7>>,
     <<PWCTR1, 162, 2, 132>>, <<PWCTR2, 197>>, <<PWCTR3, 10, 0>>,
     <<PWCTR4, 138, 42>>, <<PWCTR5, 138, 238>>, <<VMCTR1, 14>>, <<INVOFF>>,
     <<MADCTL, 0>>, <<DISPON>> >>

\* Entry e on the wire: the opcode as a command, the rest as data.
EntryBytes(e) == <<Tx(0, <<Head(e)>>, 1, 1)>> \o SplitBytes(1, Tail(e))

RECURSIVE EntriesBytes(_)
EntriesBytes(es) ==
  IF es = <<>> THEN <<>> ELSE EntryBytes(Head(es)) \o EntriesBytes(Tail(es))

\* C4: the stream a constructor emits is the init sequence, opcode by
\* opcode and argument by argument, once, and nothing else.
C4_InitSequenceExact ==
  call.name \in Constructors => Logical(trace) = EntriesBytes(ExpectedInit)

\* C4 witness: the software constructor, with a reset pin, has returned; the
\* last byte it sent is DISPON.
C4_Witness ==
  /\ call = Call("new", <<TRUE>>)
  /\ Len(trace) > 0
  /\ IsCmd(trace[Len(trace)], DISPON)

\* C5: in the init run the driver blocks 200 ms right after the SWRESET
\* opcode and 200 ms right after the SLPOUT opcode, before the next opcode.
C5_SettleAfterResetAndSleepOut ==
  call.name \in Constructors =>
    /\ \E i \in 1..Len(trace) : IsCmd(trace[i], SWRESET)
    /\ \E i \in 1..Len(trace) : IsCmd(trace[i], SLPOUT)
    /\ \A i \in 1..Len(trace) :
         (IsCmd(trace[i], SWRESET) \/ IsCmd(trace[i], SLPOUT)) =>
           i < Len(trace) /\ trace[i + 1] = Sleep(200)

\* The sleeps of trace t.
IsSleep(i) == i.k = "sleep"
Sleeps(t) == SelectSeq(t, IsSleep)

\* C6: execute_command sends the opcode as a command first; then, with no
\* delay configured, every argument as data in order and no sleep; with a
\* delay configured, no argument byte, and one sleep of the configured
\* length if and only if the argument list is not empty.
C6_DelayXorArguments ==
  call.name = "execute_command" =>
    LET cmd == Arg(1)
        rest == Tail(trace)
    IN  /\ ok
        /\ Len(trace) >= 1
        /\ IsCmd(trace[1], cmd.instruction)
        /\ cmd.delay = <<>> =>
             /\ Sleeps(rest) = <<>>
             /\ rest = SplitBytes(1, cmd.arguments)
        /\ cmd.delay # <<>> =>
             /\ Logical(rest) = <<>>
             /\ (Sleeps(rest) # <<>>) <=> (cmd.arguments # <<>>)
             /\ rest = IF cmd.arguments # <<>> THEN <<Sleep(cmd.delay[1])>> ELSE <<>>

\* C6 witness: a command with a delay and no arguments has been executed, and
\* nothing followed its opcode.
C6_Witness ==
  /\ call.name = "execute_command"
  /\ Arg(1).delay # <<>>
  /\ Arg(1).arguments = <<>>
  /\ Len(trace) = 1

\* The same handle on the other transport.
Twin(self) ==
  IF self.spi THEN NewHandle(FALSE, self.checks) ELSE NewWithSpiHandle(self.checks)

\* Two items deliver the same bytes.
SameItem(i, j) ==
  /\ i.lvl = j.lvl
  /\ i.bytes = j.bytes
  /\ IF i.r = j.r THEN i.n = j.n ELSE i.n * i.r = j.n * j.r

SameStream(s, t) ==
  Len(s) = Len(t) /\ \A i \in 1..Len(s) : SameItem(s[i], t[i])

\* C7: an operation delivers the same stream of (level, byte) pairs on the
\* hardware transport and on the software transport.
C7_TransportsAgree ==
  call.name \notin Constructors =>
    \E r \in {Run(Twin(display), call)} :
      r.ok = ok /\ SameStream(Logical(r.ev), Logical(trace))

\* The stream of one pixel write: the window (x,y,x,y), RAMWR, the colour
\* word high byte first.
PixelWrite(x, y, color) ==
  WindowBytes(x, y, x, y) \o
  <<Tx(0, <<RAMWR>>, 1, 1), Tx(1, <<color \div 256>>, 1, 1), Tx(1, <<color % 256>>, 1, 1)>>

\* C8: draw_pixel(x, y, color) emits the window (x,y,x,y), one RAMWR and
\* one colour word, high byte first, and nothing more.
C8_DrawPixelStream ==
  call.name = "draw_pixel" =>
    ok /\ Logical(trace) = PixelWrite(Arg(1), Arg(2), Arg(3))

\* C8 witness: a pixel has been drawn whose coordinates and colour have
\* different high and low bytes.
C8_Witness ==
  /\ call.name = "draw_pixel"
  /\ Arg(1) = 258
  /\ Arg(2) = 256
  /\ Arg(3) = Gray
  /\ Len(trace) > 0

\* C9: for an axis-aligned segment, in either endpoint order, draw_line
\* calls draw_vertical_line or draw_horizontal_line, does not evaluate the
\* slope, and completes without an arithmetic error.
C9_AxisAlignedDelegates ==
  (call.name = "draw_line" /\ (Arg(1) = Arg(3) \/ Arg(2) = Arg(4))) =>
    /\ ok
    /\ inner \in {<<"draw_vertical_line">>, <<"draw_horizontal_line">>}

\* C10: for x0 < x1 and y0 < y1, draw_line plots dx+1 pixels, one for each
\* x in x0..x1, when dy < dx, and dy+1 pixels, one for each y in y0..y1,
\* otherwise; the first pixel is (x0,y0) and every pixel lies in the
\* bounding box of the endpoints.
C10_SlopedLinePixels ==
  (call.name = "draw_line" /\ Arg(1) < Arg(3) /\ Arg(2) < Arg(4)) =>
    LET x0 == Arg(1)
        y0 == Arg(2)
        x1 == Arg(3)
        y1 == Arg(4)
        dx == x1 - x0
        dy == y1 - y0
        s == Logical(trace)
        At(j, x, y) == SubSeq(s, 13 * j + 1, 13 * j + 13) = PixelWrite(x, y, Arg(5))
    IN  /\ ok
        /\ At(0, x0, y0)
        /\ IF dy < dx
           THEN /\ Len(s) = 13 * (dx + 1)
                /\ inner = <<"slope">> \o [j \in 1..(dx + 1) |-> "draw_pixel"]
                /\ \A j \in 0..dx : \E y \in y0..y1 : At(j, x0 + j, y)
           ELSE /\ Len(s) = 13 * (dy + 1)
                /\ inner = <<"slope">> \o [j \in 1..(dy + 1) |-> "draw_pixel"]
                /\ \A j \in 0..dy : \E x \in x0..x1 : At(j, x, y0 + j)

\* C10 witness: a line has been drawn whose last pixel, (2,3), follows from
\* stepping over y with slope 3/2.
C10_Witness ==
  /\ call = Call("draw_line", <<0, 0, 2, 3, Lime>>)
  /\ ok
  /\ Len(Logical(trace)) = 52
  /\ SubSeq(Logical(trace), 27, 39) = PixelWrite(1, 2, Lime)
  /\ SubSeq(Logical(trace), 40, 52) = PixelWrite(2, 3, Lime)

\* The 16-bit word that items i and i + 1 of stream s carry, high byte first.
WordAt(s, i) == s[i].bytes[1] * 256 + s[i + 1].bytes[1]

\* The coordinate of pixel write j (from 0) of a stream of pixel writes.
PixelCoord(s, j) == <<WordAt(s, 13 * j + 2), WordAt(s, 13 * j + 7)>>

\* Stream s is a run of pixel writes in colour color.
IsPixelRun(s, color) ==
  /\ Len(s) % 13 = 0
  /\ \A j \in 0..(Len(s) \div 13 - 1) :
       /\ \A i \in (13 * j + 1)..(13 * j + 13) : Len(s[i].bytes) = 1
       /\ SubSeq(s, 13 * j + 1, 13 * j + 13) =
            PixelWrite(PixelCoord(s, j)[1], PixelCoord(s, j)[2], color)

\* C11: draw_circle with radius 0 completes without error and writes no
\* pixel other than the centre (xc, yc).
C11_RadiusZeroCentreOnly ==
  (call.name = "draw_circle" /\ Arg(3) = 0) =>
    LET s == Logical(trace)
    IN  /\ ok
        /\ IsPixelRun(s, Arg(4))
        /\ \A j \in 0..(Len(s) \div 13 - 1) : PixelCoord(s, j) = <<Arg(1), Arg(2)>>

\* C11 witness: a circle of radius 0 has been drawn at the far corner of the
\* coordinate range, and the centre was written.
C11_Witness ==
  /\ call = Call("draw_circle", <<U16Max, U16Max, 0, Magenta>>)
  /\ ok
  /\ Len(Logical(trace)) >= 13
  /\ PixelCoord(Logical(trace), 0) = <<U16Max, U16Max>>

\* C12: for r >= 1 with r <= xc and r <= yc, draw_circle completes and no
\* two of its pixel writes have the same coordinate.
C12_CircleNoDoubleDrawing ==
  (call.name = "draw_circle" /\ Arg(3) >= 1 /\ Arg(3) <= Arg(1) /\ Arg(3) <= Arg(2)) =>
    LET s == Logical(trace)
        n == Len(s) \div 13
    IN  /\ ok
        /\ IsPixelRun(s, Arg(4))
        /\ \A i \in 0..(n - 1) : \A j \in 0..(n - 1) :
             i # j => PixelCoord(s, i) # PixelCoord(s, j)

\* The window <<x0, y0, x1, y1>> of line j (from 0) of a stream of bulk line
\* writes: per line the window, RAMWR and one item of colour data.
LineWindow(s, j) ==
  <<WordAt(s, 12 * j + 2), WordAt(s, 12 * j + 7),
    WordAt(s, 12 * j + 4), WordAt(s, 12 * j + 9)>>

\* Stream s is a run of bulk line writes in colour color.
IsLineRun(s, color) ==
  /\ Len(s) % 12 = 0
  /\ \A j \in 0..(Len(s) \div 12 - 1) :
       /\ \A i \in (12 * j + 1)..(12 * j + 10) : Len(s[i].bytes) = 1
       /\ LET w == LineWindow(s, j)
          IN  SubSeq(s, 12 * j + 1, 12 * j + 10) = WindowBytes(w[1], w[2], w[3], w[4])
       /\ IsCmd(s[12 * j + 11], RAMWR)
       /\ s[12 * j + 12].lvl = 1
       /\ s[12 * j + 12].bytes = <<color \div 256, color % 256>>

\* C13: for r <= min(xc, yc), draw_filled_circle paints, for each x in
\* 0..r-1, column xc+x and then column xc-x, both over yc-y..yc+y with
\* y = floor(sqrt(r^2 - x^2)), and paints no other column.
C13_FilledCircleMirroredColumns ==
  (call.name = "draw_filled_circle" /\ Arg(3) <= Arg(1) /\ Arg(3) <= Arg(2)) =>
    LET s == Logical(trace)
        xc == Arg(1)
        yc == Arg(2)
        r == Arg(3)
    IN  /\ ok
        /\ IsLineRun(s, Arg(4))
        /\ Len(s) = 12 * 2 * r
        /\ \A x \in 0..(r - 1) :
             LET y == ISqrt(r * r - x * x)
             IN  /\ LineWindow(s, 2 * x) = <<xc + x, yc - y, xc + x, yc + y>>
                 /\ LineWindow(s, 2 * x + 1) = <<xc - x, yc - y, xc - x, yc + y>>

\* C14: whenever r <= xc and r <= yc, draw_filled_circle completes without
\* an arithmetic error and every vertical line it draws has a window with
\* y0 <= y1.
C14_FilledCircleOnlyPrecondition ==
  (call.name = "draw_filled_circle" /\ Arg(3) <= Arg(1) /\ Arg(3) <= Arg(2)) =>
    LET s == Logical(trace)
    IN  /\ ok
        /\ IsLineRun(s, Arg(4))
        /\ \A j \in 0..(Len(s) \div 12 - 1) : LineWindow(s, j)[2] <= LineWindow(s, j)[4]

\* Bit `row` of column byte `col` of glyph g is set.
GlyphBit(g, col, row) == (g[col + 1] \div (2 ^ row)) % 2 = 1

\* The cells <<col, row>> of glyph g that are set, rows 0..6 outermost and
\* columns 0..4 innermost.
GlyphCells(g) ==
  LET cell(k) == <<(k - 1) % 5, (k - 1) \div 5>>
      IsSet(c) == GlyphBit(g, c[1], c[2])
  IN  SelectSeq([k \in 1..35 |-> cell(k)], IsSet)

\* C15: draw_character completes and writes one pixel for each set bit among
\* the low 7 bits of the 5 column bytes, at (x - col, y - row), rows
\* outermost and columns innermost; bit 7 of a column gives no pixel.
C15_GlyphBitsToPixels ==
  call.name = "draw_character" =>
    LET s == Logical(trace)
        g == Arg(1)
        cells == GlyphCells(g)
    IN  /\ ok
        /\ IsPixelRun(s, Arg(4))
        /\ Len(s) = 13 * Len(cells)
        /\ Len(cells) = Cardinality({c \in (0..4) \X (0..6) : GlyphBit(g, c[1], c[2])})
        /\ inner = [j \in 1..Len(cells) |-> "draw_pixel"]
        /\ \A j \in 1..Len(cells) :
             PixelCoord(s, j - 1) = <<Arg(2) - cells[j][1], Arg(3) - cells[j][2]>>

\* Window w = <<x0, y0, x1, y1>> addresses the point p = <<x, y>>.
Addresses(w, p) == w[1] <= p[1] /\ p[1] <= w[3] /\ w[2] <= p[2] /\ p[2] <= w[4]

\* Window w lies on the border of the rectangle (x0, y0, x1, y1).
OnBorder(w, x0, y0, x1, y1) ==
  /\ x0 <= w[1] /\ w[1] <= w[3] /\ w[3] <= x1
  /\ y0 <= w[2] /\ w[2] <= w[4] /\ w[4] <= y1
  /\ \/ w[2] = w[4] /\ w[2] \in {y0, y1}
     \/ w[1] = w[3] /\ w[1] \in {x0, x1}

\* The number of the four lines of stream s that address the point p.
LinesAddressing(s, p) == Cardinality({j \in 0..3 : Addresses(LineWindow(s, j), p)})

\* draw_rect has drawn the four border lines of (x0, y0, x1, y1) in order,
\* every window on the border.
FourBorderLines(s, x0, y0, x1, y1, color) ==
  /\ ok
  /\ inner = <<"draw_horizontal_line", "draw_horizontal_line",
               "draw_vertical_line", "draw_vertical_line">>
  /\ IsLineRun(s, color)
  /\ Len(s) = 12 * 4
  /\ LineWindow(s, 0) = <<x0, y0, x1, y0>>
  /\ LineWindow(s, 1) = <<x0, y1, x1, y1>>
  /\ LineWindow(s, 2) = <<x0, y0, x0, y1>>
  /\ LineWindow(s, 3) = <<x1, y0, x1, y1>>
  /\ \A j \in 0..3 : OnBorder(LineWindow(s, j), x0, y0, x1, y1)

\* The corners of the rectangle (x0, y0, x1, y1).
Corners(x0, y0, x1, y1) == {<<x0, y0>>, <<x1, y0>>, <<x0, y1>>, <<x1, y1>>}

\* C16 as stated: for x0 <= x1 and y0 <= y1, draw_rect draws the four border
\* lines in order, every window on the border, and each corner is addressed
\* by exactly two of the four lines.
C16_Original ==
  (call.name = "draw_rect" /\ Arg(1) <= Arg(3) /\ Arg(2) <= Arg(4)) =>
    LET s == Logical(trace)
    IN  /\ FourBorderLines(s, Arg(1), Arg(2), Arg(3), Arg(4), Arg(5))
        /\ \A p \in Corners(Arg(1), Arg(2), Arg(3), Arg(4)) : LinesAddressing(s, p) = 2

\* C16 amended: for x0 <= x1 and y0 <= y1 with sides that fit in 16 bits
\* (x1 - x0 < 65535, y1 - y0 < 65535), draw_rect draws the four border lines
\* in order, every window on the border; each corner is addressed by
\* exactly two of the four lines when x0 < x1 and y0 < y1, by three when
\* exactly one side is a single pixel, and by all four when both are.
C16_RectFourBorderLines ==
  (call.name = "draw_rect" /\ Arg(1) <= Arg(3) /\ Arg(2) <= Arg(4)
     /\ Arg(3) - Arg(1) < U16Max /\ Arg(4) - Arg(2) < U16Max) =>
    LET s == Logical(trace)
        flat == (IF Arg(1) = Arg(3) THEN 1 ELSE 0) + (IF Arg(2) = Arg(4) THEN 1 ELSE 0)
    IN  /\ FourBorderLines(s, Arg(1), Arg(2), Arg(3), Arg(4), Arg(5))
        /\ \A p \in Corners(Arg(1), Arg(2), Arg(3), Arg(4)) :
             LinesAddressing(s, p) = 2 + flat

\* C16 witness: a rectangle with distinct corners has been outlined, and the
\* corner (0, 0) is addressed by the first and the third line.
C16_Witness ==
  /\ call = Call("draw_rect", <<0, 0, 2, 1, Magenta>>)
  /\ ok
  /\ Addresses(LineWindow(Logical(trace), 0), <<0, 0>>)
  /\ Addresses(LineWindow(Logical(trace), 2), <<0, 0>>)
  /\ LinesAddressing(Logical(trace), <<0, 0>>) = 2

\* ev, n times over.
RECURSIVE Repeated(_, _)
Repeated(ev, n) == IF n = 0 THEN <<>> ELSE ev \o Repeated(ev, n - 1)

\* The environment calls under trace t, one by one.
RECURSIVE Flat(_, _)
Flat(self, t) ==
  IF t = <<>> THEN <<>>
  ELSE Repeated(LineEvents(self, Head(t)), Lines(self, Head(t)).times) \o
       Flat(self, Tail(t))

\* C17: when the environment rejects a pin-set or a write of a call, the
\* call ends in an error inside the methods it had entered, and what it
\* has emitted is what the same call emits before that environment call
\* when nothing fails, with nothing after it.
C17_RejectedEffectStopsCall ==
  ("fault" \in DOMAIN call) =>
    LET f == call.fault
        full == Run(display, Call(call.name, call.argv))
        once == LineEvents(display, full.ev[f.at])
    IN  /\ ~ok
        /\ Len(trace) >= f.at - 1
        /\ SubSeq(trace, 1, f.at - 1) = SubSeq(full.ev, 1, f.at - 1)
        /\ Flat(display, SubSeq(trace, f.at, Len(trace))) =
             Repeated(once, f.rep - 1) \o SubSeq(once, 1, f.step - 1)
        /\ Len(inner) <= Len(full.calls)
        /\ inner = SubSeq(full.calls, 1, Len(inner))
        /\ \A i \in 1..Len(full.calls) : i <= Len(inner) <=> full.entered[i] < f.at

\* C17 witness: on the software pins the first clock pulse of the RAMWR
\* opcode of a draw_pixel was rejected, after the ten bytes of the window,
\* the data/command pin-set and the first data-out pin-set.
C17_Witness ==
  /\ call.name = "draw_pixel"
  /\ "fault" \in DOMAIN call
  /\ call.fault = [at |-> 11, rep |-> 1, step |-> 3]
  /\ ~display.spi
  /\ ~ok
  /\ Len(trace) = 12
  /\ trace[11] = PinSet("dc", 0)
  /\ trace[12] = PinSet("mosi", 0)

\* C18: draw_filled_rect, draw_horizontal_line and draw_vertical_line called
\* with x0 > x1 or y0 > y1 end in an error and send no byte.
C18_ReversedWindowRejected ==
  LET reversed ==
        \/ call.name = "draw_filled_rect" /\ (Arg(1) > Arg(3) \/ Arg(2) > Arg(4))
        \/ call.name = "draw_horizontal_line" /\ Arg(1) > Arg(2)
        \/ call.name = "draw_vertical_line" /\ Arg(2) > Arg(3)
  IN  reversed => ~ok /\ Logical(trace) = <<>>

\* C19: the handle has the data/command pin and exactly one transport, the
\* hardware channel without clock and data-out pins or those two pins
\* without the channel, in every state; and every effect of a call uses
\* only what the handle owns.
C19_OneTransportOwnedPins ==
  /\ display.dc
  /\ \/ display.spi /\ ~display.clk /\ ~display.mosi
     \/ ~display.spi /\ display.clk /\ display.mosi
  /\ \A i \in 1..Len(trace) : PinsUsed(display, trace[i]) \subseteq Owned(display)

\* C19 witness: a handle on the software pins and without a reset pin has
\* drawn a pixel, clocking bytes out on its own pins.
C19_Witness ==
  /\ call.name = "draw_pixel"
  /\ display = NewHandle(FALSE, TRUE)
  /\ Len(trace) > 0
  /\ PinsUsed(display, trace[1]) = {"dc", "mosi", "clk"}

\* The reset pin-sets of trace t, in order.
IsRst(i) == i.k = "rst"
RstSets(t) == SelectSeq(t, IsRst)

\* C20: hard_reset sets the reset line high and then low when the handle
\* owns one and changes no pin otherwise; a constructor does this toggle
\* before it sends the first byte; no other operation touches the reset
\* line, and a handle built by new_with_spi never does.
C20_HardResetHighThenLow ==
  LET toggle == IF display.rst THEN <<PinSet("rst", 1), PinSet("rst", 0)>> ELSE <<>>
  IN  /\ call.name = "hard_reset" => trace = toggle
      /\ call.name \in Constructors =>
           /\ RstSets(trace) = toggle
           /\ \A i \in 1..Len(trace) : \A j \in 1..Len(trace) :
                (IsRst(trace[i]) /\ IsTx(trace[j])) => i < j
      /\ call.name \notin Constructors \cup {"hard_reset"} => RstSets(trace) = <<>>
      /\ display.spi => ~display.rst /\ RstSets(trace) = <<>>

\* C20 witness: new with a reset pin has returned; it set the clock low,
\* toggled the reset line high then low and then sent SWRESET.
C20_Witness ==
  /\ call = Call("new", <<TRUE>>)
  /\ Len(trace) >= 4
  /\ trace[2] = PinSet("rst", 1)
  /\ trace[3] = PinSet("rst", 0)
  /\ IsCmd(trace[4], SWRESET)

\* C21: write_bulk(color, repetitions, count) sends RAMWR once and then
\* exactly repetitions * count colour words, on both transports.
C21_BulkExactCount ==
  call.name = "write_bulk" =>
    LET s == Logical(trace)
    IN  /\ Len(s) >= 1
        /\ IsCmd(s[1], RAMWR)
        /\ RamwrCount(s) = 1
        /\ ColorWords(SubSeq(s, 2, Len(s)), Arg(1)) = Arg(2) * Arg(3)

\* C22: set_address_window(x0, y0, x1, y1) sends exactly ten bytes: CASET
\* as a command, x0 and x1 high byte first as data, RASET as a command,
\* y0 and y1 high byte first as data.
C22_WindowTenBytes ==
  call.name = "set_address_window" =>
    /\ ok
    /\ Len(Logical(trace)) = 10
    /\ Logical(trace) = WindowBytes(Arg(1), Arg(2), Arg(3), Arg(4))

\* C22 witness: the window (4660, 165, 256, 255), whose bounds differ in
\* both bytes, has been sent.
C22_Witness ==
  /\ call = Call("set_address_window", <<4660, 165, 256, 255>>)
  /\ Len(trace) = 10
  /\ trace[2] = Tx(1, <<18>>, 1, 1)
  /\ trace[3] = Tx(1, <<52>>, 1, 1)

\* Bit k of byte value.
BitOf(value, k) == (value \div Pow2(k)) % 2

\* C23: write_byte on the software pins sets the data/command line first
\* and then pulses the clock exactly 8 times, high then low; before pulse
\* i the data-out line is set to bit 7-i of the byte.
C23_EightPulsesMsbFirst ==
  (call.name = "write_byte" /\ ~display.spi) =>
    /\ Len(trace) = 1
    /\ Lines(display, trace[1]).times = 1
    /\ LET w == Lines(display, trace[1]).ev
       IN  /\ Len(w) = 25
           /\ w[1] = PinSet("dc", IF Arg(2) THEN 1 ELSE 0)
           /\ \A i \in 0..7 :
                /\ w[2 + 3 * i].k = "mosi"
                /\ Level(w[2 + 3 * i].lvl) = BitOf(Arg(1), 7 - i)
                /\ w[3 + 3 * i] = PinSet("clk", 1)
                /\ w[4 + 3 * i] = PinSet("clk", 0)

\* C23 witness: the byte 165 (binary 10100101) has been written as data on
\* the software pins; the data-out line was set high for the first bit and
\* low for the second.
C23_Witness ==
  /\ call = Call("write_byte", <<165, TRUE>>)
  /\ ~display.spi
  /\ Len(trace) = 1
  /\ Level(Lines(display, trace[1]).ev[2].lvl) = 1
  /\ Level(Lines(display, trace[1]).ev[5].lvl) = 0

\* The number of argument bytes the controller takes after opcode op: four
\* for CASET and RASET, else what the init sequence of the specification
\* gives the opcode.
ParamCount(op) ==
  IF op \in {CASET, RASET} THEN 4
  ELSE IF \E k \in 1..Len(ExpectedInit) : ExpectedInit[k][1] = op
  THEN LET k == CHOOSE k \in 1..Len(ExpectedInit) : ExpectedInit[k][1] = op
       IN  Len(ExpectedInit[k]) - 1
  ELSE 0

\* Stream s from item i on is opcodes sent with the data/command line low,
\* each followed by its argument bytes sent with the line high; after
\* RAMWR the pixel data is one bulk transfer or the two bytes of a colour.
RECURSIVE DcLevelsFrom(_, _)
DcLevelsFrom(s, i) ==
  IF i > Len(s) THEN TRUE
  ELSE LET op == s[i]
           k == IF op.bytes # <<RAMWR>> THEN ParamCount(op.bytes[1])
                ELSE IF i < Len(s) /\ Len(s[i + 1].bytes) = 2 THEN 1 ELSE 2
       IN  /\ op.lvl = 0
           /\ Len(op.bytes) = 1 /\ op.n = 1 /\ op.r = 1
           /\ i + k <= Len(s)
           /\ \A j \in (i + 1)..(i + k) : s[j].lvl = 1
           /\ DcLevelsFrom(s, i + k + 1)

\* C24: in the stream of every operation on either transport, every opcode
\* is sent with the data/command line low and every argument, coordinate
\* and pixel byte with the line high.
C24_DcLevelMatchesByteKind == DcLevelsFrom(Logical(trace), 1)

\* C24 witness: a draw_rect has completed on the SPI channel: twelve
\* opcodes and their coordinates and pixels went out.
C24_Witness ==
  /\ call.name = "draw_rect" /\ ok /\ display.spi
  /\ Len(Logical(trace)) = 48
  /\ Logical(trace)[11].lvl = 0
  /\ Logical(trace)[12].lvl = 1

\* Event i of ev sets the clock high.
ClockRises(ev, i) == ev[i].k = "clk" /\ Level(ev[i].lvl) = 1

\* Event i of ev sets the clock low.
ClockFalls(ev, i) == ev[i].k = "clk" /\ Level(ev[i].lvl) = 0

\* C25: on the software pins, new sets the clock low before anything else,
\* and in every operation each event that sets the clock high is followed
\* at once by the one that sets it low: the clock is low when the
\* operation starts and ends, and no other line is set while it is high.
C25_ClockIdlesLow ==
  ~display.spi =>
    /\ call.name \in Constructors => Len(trace) >= 1 /\ trace[1] = PinSet("clk", 0)
    /\ \A j \in 1..Len(trace) :
         LET ev == LineEvents(display, trace[j])
         IN  \A i \in 1..Len(ev) :
               ClockRises(ev, i) => i < Len(ev) /\ ClockFalls(ev, i + 1)

\* C25 witness: a pixel has been drawn on the software pins; under its
\* first byte the data-out line was set and the clock went high, then low.
C25_Witness ==
  /\ call.name = "draw_pixel" /\ ~display.spi
  /\ Len(trace) >= 1
  /\ LET ev == LineEvents(display, trace[1])
     IN  /\ ev[2].k = "mosi"
         /\ ClockRises(ev, 3)
         /\ ClockFalls(ev, 4)

\* C26: for r <= xc and r <= yc, draw_circle and draw_filled_circle do no
\* u16 arithmetic that overflows: in a build with overflow checks, where
\* an overflow panics, the call returns.
C26_CircleNoOverflow ==
  (/\ call.name \in {"draw_circle", "draw_filled_circle"}
   /\ display.checks
   /\ Arg(3) <= Arg(1) /\ Arg(3) <= Arg(2)) => ok

\* The pixel coordinates that the windows of stream s cover.
Addressed(s) ==
  UNION {{<<x, y>> : x \in WordAt(s, i + 1)..WordAt(s, i + 3),
                     y \in WordAt(s, i + 6)..WordAt(s, i + 8)} :
         i \in {k \in 1..(Len(s) - 9) : IsCmd(s[k], CASET)}}

\* C27: draw_line(x0,y0,x1,y1,C) and draw_line(x1,y1,x0,y0,C) both
\* complete and address the same set of pixel coordinates, which holds
\* both endpoints.
C27_LineSymmetric ==
  call.name = "draw_line" =>
    LET back == Run(display, Call("draw_line", <<Arg(3), Arg(4), Arg(1), Arg(2), Arg(5)>>))
        there == Addressed(Logical(trace))
    IN  /\ ok
        /\ back.ok
        /\ there = Addressed(Logical(back.ev))
        /\ <<Arg(1), Arg(2)>> \in there
        /\ <<Arg(3), Arg(4)>> \in there

\* C28: for r <= min(xc, yc), draw_circle and draw_filled_circle complete
\* and every pixel coordinate that draw_circle(xc,yc,r,C) addresses lies in
\* a column span that draw_filled_circle(xc,yc,r,C) addresses.
C28_FillCoversOutline ==
  (call.name = "draw_circle" /\ Arg(3) <= Arg(1) /\ Arg(3) <= Arg(2)) =>
    LET fill == Run(display, Call("draw_filled_circle", call.argv))
    IN  /\ ok
        /\ fill.ok
        /\ Addressed(Logical(trace)) \subseteq Addressed(Logical(fill.ev))

=============================================================================
